---------------------------- MODULE Spec2Model ----------------------------
(***************************************************************************)
(* webcii: a webcam-to-terminal ASCII renderer (src/src/main.rs).          *)
(*                                                                         *)
(* Three flows are modelled: the control flow (key listener task), the     *)
(* capture flow (blocking camera task) and the render flow (the select     *)
(* loop of main).  They communicate through two tokio watch channels:      *)
(* frame_tx/frame_rx and quit_tx/quit_rx.  The per-cell pipeline           *)
(* (temporal blend, Sobel edge detection, glyph and colour mapping) is     *)
(* modelled as operators computed as the code computes them.               *)
(***************************************************************************)
EXTENDS Integers, Sequences, FiniteSets, TLC

(***************************************************************************)
(* Bounds of the model.                                                    *)
(***************************************************************************)
\* Number of frames the camera delivers (decoded or not) in one run.
MaxFrames == 3

\* Largest number of terminal rows terminal::size() reports.
MaxTermRows == 3

(***************************************************************************)
(* Program constants.                                                      *)
(***************************************************************************)
TARGET_FRAME_TIME_MS == 16

\* ASCII_CHARS.len()
RampLen == 70

\* Sobel threshold passed at the call site (30.0)
SobelThreshold == 30

\* `let mut last_color_idx = usize::MAX`: a value no colour index equals.
\* (usize::MAX itself exceeds the integers of the model checker.)
NoColorIdx == -1

\* Number of terminal columns terminal::size() reports (kept fixed).
TermCols == 3

\* The glyph ramp, lines 25-30.  The backquote is written by its code point
\* (a backquote opens a quotation inside a string of this language), as are
\* the two box-drawing glyphs of EdgeGlyph.
ASCII_CHARS ==
    << "$", "@", "B", "%", "8", "&", "W", "M", "#", "*", "o", "a", "h", "k",
       "b", "d", "p", "q", "w", "m", "Z", "O", "0", "Q", "L", "C", "J", "U",
       "Y", "X", "z", "c", "v", "u", "n", "x", "r", "j", "f", "t", "/", "\\",
       "|", "(", ")", "1", "{", "}", "[", "]", "?", "-", "_", "+", "~", "<",
       ">", "i", "!", "l", "I", ";", ":", ",", "\"", "^", "U+0060", "'", ".", " " >>

(***************************************************************************)
(* Option<T>                                                               *)
(***************************************************************************)
None == [some |-> FALSE, val |-> <<>>]
Some(v) == [some |-> TRUE, val |-> v]

\* Zero-based indexing of a Vec modelled as a sequence.
At(v, i) == v[i + 1]

(***************************************************************************)
(* Frames.  A DecodedFrame carries width, height and the row-major RGB8    *)
(* bytes; `buffer` and `pixels` hold the same bytes (decoded.as_raw()).    *)
(***************************************************************************)
\* The pixel of image `kind` at (x, y): a uniform black image, an image with
\* a clean vertical boundary after column 0, and a uniform tinted image.
PixelOf(kind, x, y) ==
    CASE kind = "black" -> <<0, 0, 0>>
      [] kind = "split" -> IF x = 0 THEN <<0, 0, 0>> ELSE <<255, 255, 255>>
      [] OTHER          -> <<100, 150, 200>>

RECURSIVE MkPixels(_, _, _, _)
MkPixels(w, h, kind, i) ==
    IF i >= w * h THEN <<>>
    ELSE PixelOf(kind, i % w, i \div w) \o MkPixels(w, h, kind, i + 1)

DecodedFrame(w, h, kind) ==
    [width |-> w, height |-> h, pixels |-> MkPixels(w, h, kind, 0)]

\* The images the camera may deliver: two 3x3 images and a 2x2 image of
\* another resolution.
CameraFrames ==
    { DecodedFrame(3, 3, "black"),
      DecodedFrame(3, 3, "split"),
      DecodedFrame(2, 2, "tint") }

\* decoded.get_pixel(x, y)
get_pixel(frame, x, y) ==
    LET idx == (y * frame.width + x) * 3
    IN  <<At(frame.pixels, idx), At(frame.pixels, idx + 1), At(frame.pixels, idx + 2)>>

(***************************************************************************)
(* Temporal blend of one channel: ((c as u16 * 7 + p as u16 * 3) / 10) as u8 *)
(***************************************************************************)
\* A blend that rounds to nearest instead of truncating.
BlendChannelRounding(c, p) == (((c * 7 + p * 3 + 5) % 65536) \div 10) % 256

BlendChannel(c, p) == (((c * 7 + p * 3) % 65536) \div 10) % 256

\* The blended pixel of source cell (x, y), lines 263-274.
BlendPixel(frame, prev_frame, x, y) ==
    LET pixel == get_pixel(frame, x, y)
        idx == (y * frame.width + x) * 3
        prev == prev_frame.val
    IN  IF prev_frame.some /\ idx + 2 < Len(prev)
        THEN << BlendChannel(pixel[1], At(prev, idx)),
                BlendChannel(pixel[2], At(prev, idx + 1)),
                BlendChannel(pixel[3], At(prev, idx + 2)) >>
        ELSE pixel

(***************************************************************************)
(* Edge detector                                                           *)
(***************************************************************************)
Abs(n) == IF n < 0 THEN -n ELSE n

get_brightness(frame, px, py) ==
    LET pixel == get_pixel(frame, px, py)
    IN  (pixel[1] + pixel[2] + pixel[3]) \div 3

\* The angle bands of lines 99-108 in exact arithmetic: with t = tan 22.5
\* = sqrt(2) - 1, |gy| < t|gx| iff (|gx| + |gy|)^2 < 2 gx^2.  An integer
\* gradient never lies on a band boundary, t being irrational.
ClassifyAngle(gx, gy) ==
    LET s == (Abs(gx) + Abs(gy)) * (Abs(gx) + Abs(gy))
    IN  IF s < 2 * gx * gx THEN "Vertical"
        ELSE IF s < 2 * gy * gy THEN "Horizontal"
        ELSE IF gx * gy > 0 THEN "DiagonalDown"
        ELSE "DiagonalUp"

\* A border test that lets the last column and the last row through.
IsBorderCellLastExcluded(x, y, width, height) ==
    x = 0 \/ y = 0 \/ x > width - 1 \/ y > height - 1

\* Line 56: the cells without a full 3x3 neighbourhood.
IsBorderCell(x, y, width, height) ==
    x = 0 \/ y = 0 \/ x >= width - 1 \/ y >= height - 1

\* The coordinates get_brightness is called with, lines 66-73: none for a
\* border cell, the eight neighbours otherwise.
sobel_reads(x, y, width, height) ==
    IF IsBorderCell(x, y, width, height)
    THEN {}
    ELSE {<<x + dx, y + dy>> : dx \in {-1, 0, 1}, dy \in {-1, 0, 1}} \ {<<x, y>>}

\* ImageBuffer::get_pixel panics for a coordinate outside the image.
InImage(frame, px, py) ==
    px >= 0 /\ px < frame.width /\ py >= 0 /\ py < frame.height

sobel_detect_edge(frame, x, y, width, height, threshold) ==
    IF IsBorderCell(x, y, width, height)
    THEN "None"
    ELSE IF \E c \in sobel_reads(x, y, width, height) : ~InImage(frame, c[1], c[2])
    THEN "Panic"
    ELSE LET nw == get_brightness(frame, x - 1, y - 1)
             n  == get_brightness(frame, x, y - 1)
             ne == get_brightness(frame, x + 1, y - 1)
             w  == get_brightness(frame, x - 1, y)
             e  == get_brightness(frame, x + 1, y)
             sw == get_brightness(frame, x - 1, y + 1)
             s  == get_brightness(frame, x, y + 1)
             se == get_brightness(frame, x + 1, y + 1)
             gx == -nw + ne - 2 * w + 2 * e - sw + se
             gy == -nw - 2 * n - ne + sw + 2 * s + se
         IN  \* magnitude <= threshold, both sides non-negative
             IF gx * gx + gy * gy <= threshold * threshold
             THEN "None"
             ELSE ClassifyAngle(gx, gy)

(***************************************************************************)
(* Glyph and colour mapper                                                 *)
(***************************************************************************)
\* ((r as u32 + g as u32 + b as u32) / 3) as u8, line 359
pixel_brightness(r, g, b) == ((r + g + b) \div 3) % 256

\* A ramp index scaled by the largest brightness instead of the number of
\* brightness values.
glyph_index_by_max(brightness) == (brightness * RampLen) \div 255

\* (brightness as usize * ASCII_CHARS.len()) / 256, line 360
glyph_index(brightness) == (brightness * RampLen) \div 256

\* ASCII_CHARS[index], line 361: indexing past the end of the array panics.
pixel_to_ascii(r, g, b) ==
    LET brightness == pixel_brightness(r, g, b)
        index == glyph_index(brightness)
    IN  IF index < Len(ASCII_CHARS) THEN At(ASCII_CHARS, index) ELSE "panic"

\* color_lookup[i], lines 203-210: the escape string for the dequantized colour
color_lookup(i) ==
    LET r == ((i \div 256) % 16) * 17
        g == ((i \div 16) % 16) * 17
        b == (i % 16) * 17
    IN  <<"ESC[38;2;", r, g, b, "m">>

\* a | b on unsigned integers
BitOr[a \in Nat, b \in Nat] ==
    IF a = 0 THEN b
    ELSE IF b = 0 THEN a
    ELSE (IF a % 2 = 1 \/ b % 2 = 1 THEN 1 ELSE 0) + 2 * BitOr[a \div 2, b \div 2]

\* a << n on usize, far from overflow
ShiftLeft(a, n) == a * 2 ^ n

\* (r / 16) as usize, lines 292-294
quantize(channel) == channel \div 16

\* A colour index that leaves the green index in the low four bits.
color_index_green_unshifted(r, g, b) ==
    BitOr[BitOr[ShiftLeft(quantize(r), 8), quantize(g)], quantize(b)]

\* (r_idx << 8) | (g_idx << 4) | b_idx, line 295
color_index(r, g, b) ==
    BitOr[BitOr[ShiftLeft(quantize(r), 8), ShiftLeft(quantize(g), 4)], quantize(b)]

EdgeGlyph(sobel_edge, r, g, b) ==
    CASE sobel_edge = "Horizontal"   -> "U+2550"
      [] sobel_edge = "Vertical"     -> "U+2551"
      [] sobel_edge = "DiagonalUp"   -> "/"
      [] sobel_edge = "DiagonalDown" -> "\\"
      [] OTHER                       -> pixel_to_ascii(r, g, b)

sobel_sample_rate(total_pixels) ==
    IF total_pixels > 200000 THEN 20
    ELSE IF total_pixels > 100000 THEN 10
    ELSE 1

(***************************************************************************)
(* Row renderer, lines 252-305.  A rendered row is the sequence of the     *)
(* pieces pushed onto row_buffer: colour escapes and glyphs.               *)
(***************************************************************************)
Channels == 0..255

SobelEdges == {"None", "Vertical", "Horizontal", "DiagonalDown", "DiagonalUp", "Panic"}

\* One cell of a row, lines 276-303: the pieces it pushes onto row_buffer
\* and the colour index it leaves in last_color_idx.
RenderCell[px \in Channels \X Channels \X Channels, sobel_edge \in SobelEdges, last_color_idx \in Int] ==
    LET ascii_char == EdgeGlyph(sobel_edge, px[1], px[2], px[3])
        color_idx == color_index(px[1], px[2], px[3])
    IN  [ row_buffer |-> (IF color_idx # last_color_idx
                          THEN <<color_lookup(color_idx)>> ELSE <<>>)
                         \o <<ascii_char>>,
          last_color_idx |-> color_idx ]

RECURSIVE RenderCells(_, _, _, _, _, _, _)
RenderCells(frame, prev_frame, term_width, term_height, ty, tx, last_color_idx) ==
    IF tx >= term_width THEN <<>>
    ELSE LET x == (tx * frame.width) \div term_width
             y == (ty * frame.height) \div term_height
             px == BlendPixel(frame, prev_frame, x, y)
             rate == sobel_sample_rate(term_width * term_height)
             should_sample_sobel == (tx % rate = 0) /\ (ty % rate = 0)
             sobel_edge == IF should_sample_sobel
                           THEN sobel_detect_edge(frame, x, y, frame.width,
                                                  frame.height, SobelThreshold)
                           ELSE "None"
             cell == RenderCell[px, sobel_edge, last_color_idx]
         IN  cell.row_buffer
             \o RenderCells(frame, prev_frame, term_width, term_height, ty, tx + 1,
                            cell.last_color_idx)

RenderRows(frame, prev_frame, term_width, term_height) ==
    [ i \in 1..term_height |->
        RenderCells(frame, prev_frame, term_width, term_height, i - 1, 0, NoColorIdx) ]

(***************************************************************************)
(* Inputs of the environment.                                              *)
(***************************************************************************)
\* Key events: a key code and whether CONTROL is held.
Keys == { [code |-> "q", ctrl |-> FALSE],
          [code |-> "c", ctrl |-> TRUE],
          [code |-> "c", ctrl |-> FALSE],
          [code |-> "x", ctrl |-> FALSE] }

\* terminal::size() results: TermCols columns and one of two row counts.
TermSizes == { <<TermCols, r>> : r \in (MaxTermRows - 1)..MaxTermRows }

\* Elapsed time of a pass (frame_start.elapsed()) in microseconds: the
\* budget exactly, the budget and a half millisecond, and a millisecond over.
PassDurationsUs ==
    { TARGET_FRAME_TIME_MS * 1000,
      TARGET_FRAME_TIME_MS * 1000 + 500,
      TARGET_FRAME_TIME_MS * 1000 + 1000 }

\* Duration::as_millis(): whole milliseconds, the fraction dropped.
as_millis(us) == us \div 1000

(***************************************************************************)
(* State.                                                                  *)
(***************************************************************************)
VARIABLES
    main_pc,        \* position of main / the render flow
    main_result,    \* "running", or the value main returned: "Ok" / "Err"
    terminal,       \* [raw_mode, cursor_hidden]: the state of the terminal
    ctl_pc,         \* key listener task: "idle", "read", "done"
    cap_pc,         \* capture task: "idle", "new", "open", "frame", "send", "failed", "done"
    cap_frame,      \* the decoded frame the capture task is about to send
    n_frames,       \* camera.frame() calls that have returned so far
    diagnostics,    \* messages written to stderr
    frame_slot,     \* value of the frame watch channel: Option<DecodedFrame>
    frame_unseen,   \* frame channel holds a version frame_rx has not seen
    last_sent,      \* history: the value of the last frame_tx.send that succeeded
    n_sent,         \* history: the number of frame_tx.send calls that succeeded
    borrowed,       \* frame_rx.borrow() is outstanding (read lock held)
    rx_alive,       \* frame_rx and quit_rx have not been dropped
    quit_val,       \* value of the quit watch channel
    quit_unseen,    \* quit channel holds a version quit_rx has not seen
    prev_frame,     \* Option<Vec<u8>>
    prev_rows,      \* Option<Vec<String>>
    should_skip_next_frame,
    term_size,      \* (term_cols, term_rows) of the current pass
    rows,           \* Option: the rows rendered by the current / last full pass
    frame_duration, \* elapsed time of the last full pass, microseconds
    out,            \* terminal output operations issued by the current / last pass
    shown_rows,     \* history: the rows displayed by the full pass before `rows`
    pass_frame,     \* history: the frame borrowed by the current / last pass
    last_pass,      \* history: "none", "skip" or "full": how the last frame was consumed
    blend,          \* the temporal blender applied to one pair of channel values
    probe           \* a pure function of the pipeline applied to one input

vars == << main_pc, main_result, terminal, ctl_pc, cap_pc, cap_frame, n_frames,
           diagnostics, frame_slot, frame_unseen, last_sent, n_sent, borrowed, rx_alive, quit_val,
           quit_unseen, prev_frame, prev_rows, should_skip_next_frame, term_size,
           rows, frame_duration, out, shown_rows, pass_frame, last_pass, blend, probe >>

ctlVars == << ctl_pc, quit_val, quit_unseen >>
capVars == << cap_pc, cap_frame, n_frames, diagnostics >>
chanVars == << frame_slot, frame_unseen, last_sent, n_sent >>
passVars == << prev_frame, prev_rows, should_skip_next_frame, term_size, rows,
               frame_duration, out, shown_rows, pass_frame, last_pass >>

BlendIdle == [c |-> 0, p |-> 0, has_prev |-> FALSE, out |-> <<0, 0, 0>>, done |-> FALSE]

ProbeIdle == [fn |-> "none"]

Init ==
    /\ main_pc = "start"
    /\ main_result = "running"
    /\ terminal = [raw_mode |-> FALSE, cursor_hidden |-> FALSE]
    /\ ctl_pc = "idle"
    /\ cap_pc = "idle"
    /\ cap_frame = None
    /\ n_frames = 0
    /\ diagnostics = {}
    /\ frame_slot = None
    /\ frame_unseen = FALSE
    /\ borrowed = FALSE
    /\ rx_alive = FALSE
    /\ quit_val = FALSE
    /\ quit_unseen = FALSE
    /\ prev_frame = None
    /\ prev_rows = None
    /\ should_skip_next_frame = FALSE
    /\ term_size = <<0, 0>>
    /\ rows = None
    /\ frame_duration = 0
    /\ out = <<>>
    /\ shown_rows = None
    /\ pass_frame = None
    /\ last_pass = "none"
    /\ blend = BlendIdle
    /\ probe = ProbeIdle
    /\ last_sent = None
    /\ n_sent = 0

(***************************************************************************)
(* Leaving main.  The locals of main are dropped: the TerminalGuard (when  *)
(* it exists) restores the terminal, the receivers are dropped and an      *)
(* outstanding borrow is released.                                         *)
(***************************************************************************)
\* A guard whose drop forgets to disable raw mode.
TerminalGuardDropKeepsRaw(t) == [raw_mode |-> t.raw_mode, cursor_hidden |-> FALSE]

\* impl Drop for TerminalGuard: cursor::Show, then disable_raw_mode();
\* both results are discarded.
TerminalGuardDrop(t) == [raw_mode |-> FALSE, cursor_hidden |-> FALSE]

ReturnFromMain(result, guard) ==
    /\ main_pc' = "returned"
    /\ main_result' = result
    /\ terminal' = IF guard THEN TerminalGuardDrop(terminal) ELSE terminal
    /\ rx_alive' = FALSE
    /\ borrowed' = FALSE

(***************************************************************************)
(* main: start-up, lines 113-196                                           *)
(***************************************************************************)
\* terminal::enable_raw_mode()?  and the construction of the guard
EnableRawMode ==
    /\ main_pc = "start"
    /\ \E ok \in BOOLEAN :
         IF ok
         THEN /\ terminal' = [terminal EXCEPT !.raw_mode = TRUE]
              /\ main_pc' = "hide"
              /\ UNCHANGED << main_result, rx_alive, borrowed >>
         ELSE ReturnFromMain("Err", FALSE)
    /\ UNCHANGED << ctlVars, capVars, chanVars, passVars, blend, probe >>

\* execute!(stdout, Clear(All), cursor::Hide)?, then the two channels are
\* created and the two background tasks spawned.
ClearAndSpawn ==
    /\ main_pc = "hide"
    /\ \E ok \in BOOLEAN :
         IF ok
         THEN /\ terminal' = [terminal EXCEPT !.cursor_hidden = TRUE]
              /\ main_pc' = "select"
              /\ rx_alive' = TRUE
              /\ ctl_pc' = "read"
              /\ cap_pc' = "new"
              /\ UNCHANGED << main_result, borrowed >>
         ELSE /\ ReturnFromMain("Err", TRUE)
              /\ UNCHANGED << ctl_pc, cap_pc >>
    /\ UNCHANGED << quit_val, quit_unseen, cap_frame, n_frames, diagnostics,
                    chanVars, passVars, blend, probe >>

(***************************************************************************)
(* Control flow: the key listener task, lines 126-142                      *)
(***************************************************************************)
IsQuitKey(key) == key.code = "q" \/ (key.code = "c" /\ key.ctrl)

\* event::read() returns a key event.  quit_tx.send(true) stores the value
\* only while a receiver exists; its result is discarded.
KeyEvent ==
    /\ ctl_pc = "read"
    /\ \E key \in Keys :
         IF IsQuitKey(key)
         THEN /\ ctl_pc' = "done"
              /\ quit_val' = (IF rx_alive THEN TRUE ELSE quit_val)
              /\ quit_unseen' = (IF rx_alive THEN TRUE ELSE quit_unseen)
         ELSE UNCHANGED ctlVars
    /\ UNCHANGED << main_pc, main_result, terminal, capVars, chanVars, borrowed,
                    rx_alive, passVars, blend, probe >>

(***************************************************************************)
(* Capture flow: the blocking camera task, lines 150-196                   *)
(***************************************************************************)
\* Camera::new(index, requested)
CameraNew ==
    /\ cap_pc = "new"
    /\ \E ok \in BOOLEAN :
         IF ok
         THEN cap_pc' = "open" /\ UNCHANGED diagnostics
         ELSE /\ cap_pc' = "failed"
              /\ diagnostics' = diagnostics \cup {"Error creating camera"}
    /\ UNCHANGED << main_pc, main_result, terminal, ctlVars, cap_frame, n_frames,
                    chanVars, borrowed, rx_alive, passVars, blend, probe >>

\* camera.open_stream()
OpenStream ==
    /\ cap_pc = "open"
    /\ \E ok \in BOOLEAN :
         IF ok
         THEN cap_pc' = "frame" /\ UNCHANGED diagnostics
         ELSE /\ cap_pc' = "failed"
              /\ diagnostics' = diagnostics \cup {"Error opening stream"}
    /\ UNCHANGED << main_pc, main_result, terminal, ctlVars, cap_frame, n_frames,
                    chanVars, borrowed, rx_alive, passVars, blend, probe >>

\* A decode error that ends the capture task.
AfterDecodeErrorReturn == "failed"

\* Lines 189-191: after the report the loop goes on to the next camera.frame().
AfterDecodeError == "frame"

\* camera.frame() returns and the frame is decoded, lines 169-176 and 189-192.
\* The camera delivers at most MaxFrames frames while the render loop runs.
CaptureFrame ==
    /\ cap_pc = "frame"
    /\ n_frames < MaxFrames \/ ~rx_alive
    /\ n_frames' = IF n_frames < MaxFrames THEN n_frames + 1 ELSE n_frames
    /\ \E outcome \in {"frame_err", "decode_err", "decoded"} :
         CASE outcome = "frame_err" ->
                UNCHANGED << cap_pc, cap_frame, diagnostics >>
           [] outcome = "decode_err" ->
                /\ diagnostics' = diagnostics \cup {"Decode error"}
                /\ cap_pc' = AfterDecodeError
                /\ UNCHANGED cap_frame
           [] OTHER ->
                /\ \E f \in CameraFrames : cap_frame' = Some(f)
                /\ cap_pc' = "send"
                /\ UNCHANGED diagnostics
    /\ UNCHANGED << main_pc, main_result, terminal, ctlVars, chanVars, borrowed,
                    rx_alive, passVars, blend, probe >>

\* A send that does not wait for the read lock to be released.
SendReadyIgnoresBorrow == TRUE

\* watch::Sender::send replaces the value under the write lock of the
\* channel, which it gets only while no borrow() is outstanding.
SendReady == ~borrowed

\* A channel that keeps a value the receiver has not seen yet and drops the
\* newer one.
watch_send_keeps_unseen(slot, unseen, value) == IF unseen THEN slot ELSE value

\* The value of a watch channel after send(value): the new value, whatever
\* the channel held and whether or not the receiver had seen it.
watch_send(slot, unseen, value) == value

\* frame_tx.send(Some(DecodedFrame{..})), lines 177-187: with no receiver left
\* it fails and the loop breaks; otherwise it replaces the value and marks
\* it changed.
Publish ==
    /\ cap_pc = "send"
    /\ IF ~rx_alive
       THEN /\ cap_pc' = "done"
            /\ UNCHANGED chanVars
       ELSE /\ SendReady
            /\ frame_slot' = watch_send(frame_slot, frame_unseen, cap_frame)
            /\ frame_unseen' = TRUE
            /\ last_sent' = cap_frame
            /\ n_sent' = n_sent + 1
            /\ cap_pc' = "frame"
    /\ cap_frame' = None
    /\ UNCHANGED << main_pc, main_result, terminal, ctlVars, n_frames, diagnostics,
                    borrowed, rx_alive, passVars, blend, probe >>


(***************************************************************************)
(* Diff compositor, lines 315-333.  An output operation is a cursor move,  *)
(* the write of row `row`, or the write of the line break after row `row`. *)
(***************************************************************************)
MoveTo(r) == [op |-> "MoveTo", row |-> r]
WriteRow(r) == [op |-> "WriteRow", row |-> r]
WriteCRLF(r) == [op |-> "WriteCRLF", row |-> r]
FlushOp == [op |-> "Flush", row |-> 0]

\* The branch taken with Some(prev): only rows that are new or differ.
RECURSIVE DiffOps(_, _, _)
DiffOps(prev, current, row_idx) ==
    IF row_idx >= Len(current) THEN <<>>
    ELSE (IF row_idx >= Len(prev) \/ At(current, row_idx) # At(prev, row_idx)
          THEN << MoveTo(row_idx), WriteRow(row_idx) >>
          ELSE <<>>)
         \o DiffOps(prev, current, row_idx + 1)

\* The branch taken with None: every row, a line break after all but the last.
RECURSIVE FullOps(_, _, _)
FullOps(current, term_height, i) ==
    IF i >= Len(current) THEN <<>>
    ELSE << WriteRow(i) >>
         \o (IF i < term_height - 1 THEN << WriteCRLF(i) >> ELSE <<>>)
         \o FullOps(current, term_height, i + 1)

\* A compositor whose full repaint starts wherever the cursor is.
CompositorOpsNoHome(prev, current, term_height) ==
    IF prev.some
    THEN DiffOps(prev.val, current, 0)
    ELSE FullOps(current, term_height, 0)

CompositorOps(prev, current, term_height) ==
    IF prev.some
    THEN DiffOps(prev.val, current, 0)
    ELSE << MoveTo(0) >> \o FullOps(current, term_height, 0)

(***************************************************************************)
(* Render flow: the select loop of main, lines 212-355                     *)
(***************************************************************************)
\* break, then `stdout.flush()?; Ok(())`, lines 353-355
LeaveLoop ==
    \E ok \in BOOLEAN : ReturnFromMain(IF ok THEN "Ok" ELSE "Err", TRUE)

\* The frame branch of select!: frame_rx.changed() resolves, which marks the
\* version seen; then the quit check of lines 215-217.
RenderWakeFrame ==
    /\ main_pc = "select"
    /\ frame_unseen
    /\ frame_unseen' = FALSE
    /\ IF quit_val
       THEN LeaveLoop
       ELSE /\ main_pc' = "pass"
            /\ UNCHANGED << main_result, terminal, rx_alive, borrowed >>
    /\ UNCHANGED << ctlVars, capVars, frame_slot, last_sent, n_sent, passVars, blend, probe >>

\* A quit branch that takes the notification and goes on waiting.
RenderWakeQuitStays ==
    /\ main_pc = "select"
    /\ quit_unseen
    /\ quit_unseen' = FALSE
    /\ UNCHANGED << main_pc, main_result, terminal, rx_alive, borrowed >>
    /\ UNCHANGED << ctl_pc, quit_val, capVars, chanVars, passVars, blend, probe >>

\* The quit branch of select!, lines 345-349.
RenderWakeQuit ==
    /\ main_pc = "select"
    /\ quit_unseen
    /\ quit_unseen' = FALSE
    /\ IF quit_val
       THEN LeaveLoop
       ELSE UNCHANGED << main_pc, main_result, terminal, rx_alive, borrowed >>
    /\ UNCHANGED << ctl_pc, quit_val, capVars, chanVars, passVars, blend, probe >>

\* A skip path that leaves the blend buffer alone.
SkipPrevFrameStale(frame, prev) == prev

\* prev_frame = Some(frame.pixels.clone()), line 240
SkipPrevFrame(frame, prev) == Some(frame.pixels)

\* A skip path that leaves the skip flag as it was.
SkipFlagAfterSkipKept(flag) == flag

\* should_skip_next_frame = false, line 241
SkipFlagAfterSkip(flag) == FALSE

\* Lines 219-251: the size query, then frame_rx.borrow(): the skip path, or
\* the row workers are started and the borrow stays outstanding.
BeginPass ==
    /\ main_pc = "pass"
    /\ \E ok \in BOOLEAN, size \in TermSizes :
         IF ~ok
         THEN /\ ReturnFromMain("Err", TRUE)
              /\ UNCHANGED passVars
         ELSE /\ term_size' = size
              /\ UNCHANGED << main_result, terminal, rx_alive >>
              /\ IF ~frame_slot.some
                 THEN /\ main_pc' = "select"
                      /\ UNCHANGED << borrowed, prev_frame, should_skip_next_frame, rows,
                                      out, shown_rows, pass_frame, last_pass >>
                 ELSE IF should_skip_next_frame
                 THEN /\ prev_frame' = SkipPrevFrame(frame_slot.val, prev_frame)
                      /\ should_skip_next_frame' = SkipFlagAfterSkip(should_skip_next_frame)
                      /\ main_pc' = "select"
                      /\ out' = <<>>
                      /\ pass_frame' = frame_slot
                      /\ last_pass' = "skip"
                      /\ UNCHANGED << borrowed, rows, shown_rows >>
                 ELSE /\ rows' = Some(<<>>)
                      /\ shown_rows' = rows
                      /\ borrowed' = TRUE
                      /\ main_pc' = "render"
                      /\ out' = <<>>
                      /\ pass_frame' = frame_slot
                      /\ UNCHANGED << prev_frame, should_skip_next_frame, last_pass >>
              /\ UNCHANGED << prev_rows, frame_duration >>
    /\ UNCHANGED << ctlVars, capVars, chanVars, blend, probe >>

\* Lines 252-305: one row worker renders its row, reading the pixels through
\* the borrowed frame and prev_frame through a shared reference.  The rows
\* are independent of one another and collect() returns them in row order
\* once every worker is done, so they are taken in that order.
RenderRow ==
    /\ main_pc = "render"
    /\ LET ty == Len(rows.val)
           row == RenderCells(frame_slot.val, prev_frame, term_size[1], term_size[2],
                              ty, 0, NoColorIdx)
       IN  /\ rows' = Some(Append(rows.val, row))
           /\ main_pc' = IF ty + 1 >= term_size[2] THEN "display" ELSE "render"
    /\ UNCHANGED << main_result, terminal, ctlVars, capVars, chanVars, borrowed,
                    rx_alive, prev_frame, prev_rows, should_skip_next_frame,
                    term_size, frame_duration, out, shown_rows, pass_frame,
                    last_pass, blend, probe >>

\* Lines 315-333: the operations are issued in order; the first one that
\* fails is propagated by `?` and ends main.
Display ==
    /\ main_pc = "display"
    /\ LET ops == CompositorOps(prev_rows, rows.val, term_size[2])
       IN  \E k \in 0..Len(ops) :
             /\ out' = SubSeq(ops, 1, k)
             /\ IF k = Len(ops)
                THEN /\ main_pc' = "flush"
                     /\ UNCHANGED << main_result, terminal, rx_alive, borrowed >>
                ELSE ReturnFromMain("Err", TRUE)
    /\ UNCHANGED << ctlVars, capVars, chanVars, prev_frame, prev_rows,
                    should_skip_next_frame, term_size, rows, frame_duration,
                    shown_rows, pass_frame, last_pass, blend, probe >>

\* A pacing decision that compares the exact elapsed time with the budget.
OverBudgetExact(us) == us > TARGET_FRAME_TIME_MS * 1000

\* frame_duration.as_millis() > TARGET_FRAME_TIME_MS, line 341
OverBudget(us) == as_millis(us) > TARGET_FRAME_TIME_MS

\* prev_rows after a display pass: no statement assigns it, lines 315-343.
NextPrevRows(prev, current) == prev

\* Lines 336-343: stdout.flush()?, prev_frame = Some(current_pixels.to_vec())
\* read through the borrowed frame, the pacing decision, and the end of the
\* `if let`, where the borrow is released.
FinishPass ==
    /\ main_pc = "flush"
    /\ \E ok \in BOOLEAN :
         IF ~ok
         THEN /\ ReturnFromMain("Err", TRUE)
              /\ UNCHANGED << prev_frame, prev_rows, should_skip_next_frame,
                              frame_duration, out, last_pass >>
         ELSE /\ out' = Append(out, FlushOp)
              /\ prev_frame' = Some(frame_slot.val.pixels)
              /\ prev_rows' = NextPrevRows(prev_rows, rows.val)
              /\ \E us \in PassDurationsUs :
                   /\ frame_duration' = us
                   /\ should_skip_next_frame' = OverBudget(us)
              /\ last_pass' = "full"
              /\ borrowed' = FALSE
              /\ main_pc' = "select"
              /\ UNCHANGED << main_result, terminal, rx_alive >>
    /\ UNCHANGED << ctlVars, capVars, chanVars, term_size, rows, shown_rows,
                    pass_frame, blend, probe >>

\* The runtime is dropped after main's body returns: the drop waits until the
\* blocking capture task has returned and the key listener task, which never
\* yields before its break, has ended.  Then the process exits.
RuntimeShutdown ==
    /\ main_pc = "returned"
    /\ ctl_pc \in {"idle", "done"}
    /\ cap_pc \in {"idle", "failed", "done"}
    /\ main_pc' = "exited"
    /\ UNCHANGED << main_result, terminal, ctlVars, capVars, chanVars, borrowed,
                    rx_alive, passVars, blend, probe >>

\* Process exit status: 0 when main returned Ok(()), 1 when it returned Err.
ExitStatus == IF main_result = "Ok" THEN 0 ELSE 1

RenderNext ==
    \/ EnableRawMode
    \/ ClearAndSpawn
    \/ RenderWakeFrame
    \/ RenderWakeQuit
    \/ BeginPass
    \/ RenderRow
    \/ Display
    \/ FinishPass
    \/ RuntimeShutdown

CaptureNext ==
    \/ CameraNew
    \/ OpenStream
    \/ CaptureFrame
    \/ Publish

Next ==
    \/ RenderNext
    \/ CaptureNext
    \/ KeyEvent

Spec == Init /\ [][Next]_vars


\* The render flow keeps taking its steps: main is polled by the runtime
\* whenever a wake-up of its select! is pending or a pass is under way.
FairSpec == Spec /\ WF_vars(RenderNext)

(***************************************************************************)
(* The temporal blender on its own: one current and one previous channel   *)
(* value, as a 1x1 frame and a one-pixel previous buffer.                  *)
(***************************************************************************)
\* Largest value of a u8 channel.
MaxChannel == 255

OnePixelFrame(c) == [width |-> 1, height |-> 1, pixels |-> <<c, c, c>>]

BlendInit ==
    /\ Init!1 /\ Init!2 /\ Init!3 /\ Init!4 /\ Init!5 /\ Init!6 /\ Init!7
    /\ Init!8 /\ Init!9 /\ Init!10 /\ Init!11 /\ Init!12 /\ Init!13 /\ Init!14
    /\ Init!15 /\ Init!16 /\ Init!17 /\ Init!18 /\ Init!19 /\ Init!20 /\ Init!21
    /\ Init!22 /\ Init!23 /\ Init!24 /\ Init!26 /\ Init!27 /\ Init!28
    /\ blend \in [c : 0..MaxChannel, p : 0..MaxChannel, has_prev : BOOLEAN,
                  out : {<<0, 0, 0>>}, done : {FALSE}]

\* Lines 263-274 applied to the pixel (c, c, c) with previous pixel (p, p, p),
\* or with no previous frame.
ApplyBlend ==
    /\ ~blend.done
    /\ LET prev == IF blend.has_prev THEN Some(<<blend.p, blend.p, blend.p>>) ELSE None
           px == BlendPixel(OnePixelFrame(blend.c), prev, 0, 0)
       IN  blend' = [blend EXCEPT !.out = px, !.done = TRUE]
    /\ UNCHANGED << main_pc, main_result, terminal, ctlVars, capVars, chanVars,
                    borrowed, rx_alive, passVars, probe >>

BlendNext == ApplyBlend

BlendSpec == BlendInit /\ [][BlendNext]_vars


(***************************************************************************)
(* Properties.                                                             *)
(***************************************************************************)
\* Number of row writes among the output operations `ops`.
RowWrites(ops) == Cardinality({ i \in 1..Len(ops) : ops[i].op = "WriteRow" })

\* A full pass (render, display, flush) has just completed.
FullPassDone == main_pc = "select" /\ last_pass = "full"

\* Row indices at which the rows of this pass differ from the rows displayed before.
ChangedRows == { i \in 1..Len(rows.val) : rows.val[i] # shown_rows.val[i] }

\* C1: when the rows rendered for a displayed frame equal, row by row, the
\* rows of the frame displayed before it, the compositor writes no row: the
\* only output operation of the pass is the flush.
C1_EqualRowsWriteNothing ==
    (FullPassDone /\ shown_rows.some /\ rows.val = shown_rows.val)
        => out = << FlushOp >>

\* C2: the number of row writes of a displayed frame is the number of rows
\* that differ from the rows displayed before; it is the row count on the
\* first displayed frame or when the row count changed.
C2_WritesCountChangedRows ==
    FullPassDone =>
        RowWrites(out) =
            IF ~shown_rows.some \/ Len(shown_rows.val) # Len(rows.val)
            THEN Len(rows.val)
            ELSE Cardinality(ChangedRows)

\* C3: after every display pass the memoized prior rows are the rows just
\* displayed (so they are present after the first display).
C3_PrevRowsAreDisplayedRows ==
    (main_pc \in {"select", "pass"} /\ rows.some) => prev_rows = rows

\* The step in which the render flow consumes a frame: the size query
\* succeeded and the borrowed value is a frame.
ConsumeStep == main_pc = "pass" /\ main_pc' \in {"select", "render"} /\ frame_slot.some

\* What the skip path does, and nothing else.
SkipEffects ==
    /\ main_pc' = "select"
    /\ prev_frame' = Some(frame_slot.val.pixels)
    /\ should_skip_next_frame' = FALSE
    /\ out' = <<>>
    /\ rows' = rows
    /\ prev_rows' = prev_rows

\* The frame enters the full pipeline.
FullEffects ==
    /\ main_pc' = "render"
    /\ rows' = Some(<<>>)
    /\ borrowed'
    /\ prev_frame' = prev_frame

\* C4 as stated: a full pass that took longer than 16 ms makes the next
\* received frame take the skip path; a pass of 16 ms or less does not.
C4_SkipAfterPassOverBudget ==
    [][ ConsumeStep =>
          IF last_pass = "full" /\ frame_duration > TARGET_FRAME_TIME_MS * 1000
          THEN SkipEffects
          ELSE FullEffects ]_vars

\* C4 (amended): the next frame consumed takes the skip path exactly when the
\* preceding consumption was a full pass whose elapsed time, in whole
\* milliseconds with the fraction dropped, exceeds 16 (17 ms or more); the
\* skip path only sets PreviousFrameBuffer to the frame's pixels, clears the
\* flag and issues no output operation; otherwise the frame runs the full
\* pipeline.
C4_SkipAfterWholeMillisOverBudget ==
    [][ ConsumeStep =>
          IF last_pass = "full" /\ frame_duration \div 1000 > TARGET_FRAME_TIME_MS
          THEN SkipEffects
          ELSE FullEffects ]_vars

\* A frame was skipped right after a pass of 17 ms.
C4_Witness ==
    /\ main_pc = "select"
    /\ last_pass = "skip"
    /\ frame_duration = 17000
    /\ out = <<>>
    /\ prev_frame = Some(pass_frame.val.pixels)

\* C5: after the render flow has consumed a frame, by the full pipeline or
\* by the skip path, PreviousFrameBuffer holds the raw pixels of that frame.
C5_PrevFrameIsLastConsumed ==
    (main_pc \in {"select", "pass"} /\ pass_frame.some)
        => prev_frame = Some(pass_frame.val.pixels)

\* A frame of another resolution than the displayed one was consumed by the
\* skip path.
C5_Witness ==
    /\ main_pc = "select"
    /\ last_pass = "skip"
    /\ rows.some
    /\ pass_frame.val.width = 2
    /\ prev_frame = Some(pass_frame.val.pixels)

\* C6: publishing a decoded frame is possible in every state in which the
\* capture flow has one to publish, a pass of the render flow included.
C6_PublishNeverBlocked == (cap_pc = "send") => ENABLED Publish

\* C7: once the termination signal is published the render flow leaves its
\* loop, and from its wait it goes nowhere but out of the loop: no pass
\* starts after the signal is observed.
C7_RenderLeavesLoop ==
    /\ quit_val ~> (main_pc \in {"returned", "exited"})
    /\ [][ (main_pc = "select" /\ quit_val) => main_pc' \in {"select", "returned"} ]_vars

\* The loop was left on a frame wake-up after passes had run.
C7_Witness ==
    /\ quit_val
    /\ main_pc = "returned"
    /\ main_result = "Ok"
    /\ last_pass = "full"
    /\ quit_unseen

C9_InitFailureExitsNonZero ==
    /\ (cap_pc = "failed" /\ main_pc = "exited")
         => (diagnostics # {} /\ ExitStatus # 0)
    /\ (cap_pc # "failed" /\ main_pc = "exited" /\ main_result = "Ok")
         => ExitStatus = 0

\* C10 as stated: with no previous frame the blender returns the channel
\* unchanged; with one it returns (7c + 3p)/10 rounded to nearest, in 0..255.
C10_BlendRoundsToNearest ==
    blend.done =>
        LET c == blend.c
            p == blend.p
            nearest == (2 * (7 * c + 3 * p) + 10) \div 20
            want == IF blend.has_prev THEN nearest ELSE c
        IN  blend.out = <<want, want, want>> /\ want \in 0..255

\* C10 (amended): with no previous frame the blender returns the channel
\* unchanged; with one it returns floor((7c + 3p)/10), the fraction
\* dropped, which is within 0..255.
C10_BlendTruncates ==
    blend.done =>
        LET c == blend.c
            p == blend.p
            want == IF blend.has_prev THEN (7 * c + 3 * p) \div 10 ELSE c
        IN  blend.out = <<want, want, want>> /\ want \in 0..255

\* A blend whose exact value has a fraction of one half or more.
C10_Witness ==
    /\ blend.done
    /\ blend.has_prev
    /\ blend.c = 255
    /\ blend.p = 0
    /\ blend.out = <<178, 178, 178>>



(***************************************************************************)
(* The glyph mapper on its own: pixel_to_ascii applied to one pixel.  The  *)
(* red channel runs over every u8 value and the other two over the two     *)
(* extremes, which reaches every brightness 0..255.                         *)
(***************************************************************************)
\* Everything but the probe is as after construction.
IdleProgram ==
    /\ Init!1 /\ Init!2 /\ Init!3 /\ Init!4 /\ Init!5 /\ Init!6 /\ Init!7
    /\ Init!8 /\ Init!9 /\ Init!10 /\ Init!11 /\ Init!12 /\ Init!13 /\ Init!14
    /\ Init!15 /\ Init!16 /\ Init!17 /\ Init!18 /\ Init!19 /\ Init!20 /\ Init!21
    /\ Init!22 /\ Init!23 /\ Init!24 /\ Init!25 /\ Init!27 /\ Init!28

programVars == << main_pc, main_result, terminal, ctlVars, capVars, chanVars,
                  borrowed, rx_alive, passVars, blend >>

ChannelExtremes == {0, MaxChannel}

GlyphInit ==
    /\ IdleProgram
    /\ probe \in [fn : {"pixel_to_ascii"}, r : 0..MaxChannel, g : ChannelExtremes,
                  b : ChannelExtremes, index : {0}, glyph : {""}, done : {FALSE}]

\* Lines 358-363 applied to the pixel (r, g, b).
ApplyGlyph ==
    /\ probe.fn = "pixel_to_ascii"
    /\ ~probe.done
    /\ probe' = [probe EXCEPT
                   !.index = glyph_index(pixel_brightness(probe.r, probe.g, probe.b)),
                   !.glyph = pixel_to_ascii(probe.r, probe.g, probe.b),
                   !.done = TRUE]
    /\ UNCHANGED programVars

GlyphNext == ApplyGlyph

GlyphSpec == GlyphInit /\ [][GlyphNext]_vars

\* C11: for every pixel the glyph index is floor(brightness * 70 / 256) with
\* brightness = floor((r + g + b) / 3); it lies within 0..69, the glyph is the
\* ramp entry at that index, no lower brightness has a higher index, and
\* brightness 0 gives index 0, the glyph '$'.
C11_GlyphIndexInRampAndMonotone ==
    (probe.fn = "pixel_to_ascii" /\ probe.done) =>
        LET brightness == (probe.r + probe.g + probe.b) \div 3
        IN  /\ probe.index = (brightness * 70) \div 256
            /\ probe.index \in 0..69
            /\ probe.glyph = ASCII_CHARS[probe.index + 1]
            /\ \A lower \in 0..brightness : glyph_index(lower) <= probe.index
            /\ (brightness = 0) => (probe.index = 0 /\ probe.glyph = "$")

\* The brightest pixel has been mapped to the last ramp entry, the blank.
C11_Witness ==
    /\ probe.fn = "pixel_to_ascii"
    /\ probe.done
    /\ probe.r = 255 /\ probe.g = 255 /\ probe.b = 255
    /\ probe.index = 69
    /\ probe.glyph = " "


(***************************************************************************)
(* The colour quantizer and its lookup table on their own.  Every channel  *)
(* runs over the sixteen table colours n * 17 and over the lowest and the  *)
(* highest value of each of the sixteen quantization buckets.              *)
(***************************************************************************)
\* Largest 4-bit index, the mask 0xF.
NibbleMax == 15

QuantChannels ==
    {n * 17 : n \in 0..NibbleMax} \cup {n * 16 : n \in 0..NibbleMax}
        \cup {n * 16 + 15 : n \in 0..NibbleMax}

QuantInit ==
    /\ IdleProgram
    /\ probe \in [fn : {"color_lookup"}, r : QuantChannels, g : QuantChannels,
                  b : QuantChannels, idx : {<<0, 0, 0>>}, color_idx : {0},
                  entry : {<<>>}, done : {FALSE}]

\* Lines 292-298 applied to the pixel (r, g, b): the three 4-bit indexes, the
\* packed index and the table entry read with it.
ApplyQuant ==
    /\ probe.fn = "color_lookup"
    /\ ~probe.done
    /\ LET color_idx == color_index(probe.r, probe.g, probe.b)
       IN  probe' = [probe EXCEPT
                       !.idx = <<quantize(probe.r), quantize(probe.g), quantize(probe.b)>>,
                       !.color_idx = color_idx,
                       !.entry = color_lookup(color_idx),
                       !.done = TRUE]
    /\ UNCHANGED programVars

QuantNext == ApplyQuant

QuantSpec == QuantInit /\ [][QuantNext]_vars

\* C12: a channel of value n * 17, n in 0..15, quantizes to n and n * 17 is
\* what the table gives back for it; the table entry read with the packed
\* index is the escape string of (rQ * 17, gQ * 17, bQ * 17); the packed
\* index lies within 0..4095.
C12_QuantizeLookupRoundTrip ==
    (probe.fn = "color_lookup" /\ probe.done) =>
        LET channels == <<probe.r, probe.g, probe.b>>
        IN  /\ \A k \in 1..3 : \A n \in 0..15 :
                  (channels[k] = n * 17) =>
                      (probe.idx[k] = n /\ probe.entry[k + 1] = channels[k])
            /\ probe.color_idx \in 0..4095
            /\ probe.entry = <<"ESC[38;2;", probe.idx[1] * 17, probe.idx[2] * 17,
                               probe.idx[3] * 17, "m">>

\* A table colour with three different channels has gone through the round trip.
C12_Witness ==
    /\ probe.fn = "color_lookup"
    /\ probe.done
    /\ probe.r = 17 /\ probe.g = 136 /\ probe.b = 255
    /\ probe.idx = <<1, 8, 15>>
    /\ probe.color_idx = 399
    /\ probe.entry = <<"ESC[38;2;", 17, 136, 255, "m">>


(***************************************************************************)
(* The edge detector on its own: sobel_detect_edge applied to one cell of  *)
(* one image, with the dimensions of that image as at the call site.  The  *)
(* images are all the two-level grey images of the sizes below, the two    *)
(* uniform ones included.                                                   *)
(***************************************************************************)
SobelSizes == {<<3, 3>>, <<4, 3>>}

GreyLevels == {0, MaxChannel}

SobelThresholds == {0, SobelThreshold}

\* The image whose pixel number k (row-major, from 1) is the grey levels[k].
GreyFrame(w, h, levels) ==
    [width |-> w, height |-> h,
     pixels |-> [i \in 1..(w * h * 3) |-> levels[((i - 1) \div 3) + 1]]]

SobelFrames ==
    UNION { {GreyFrame(size[1], size[2], levels) :
                levels \in [1..(size[1] * size[2]) -> GreyLevels]} : size \in SobelSizes }

SobelInit ==
    /\ IdleProgram
    /\ \E frame \in SobelFrames, threshold \in SobelThresholds :
         \E x \in 0..(frame.width - 1), y \in 0..(frame.height - 1) :
            probe = [fn |-> "sobel_detect_edge", frame |-> frame, x |-> x, y |-> y,
                     threshold |-> threshold, reads |-> {}, edge |-> "",
                     done |-> FALSE]

\* Lines 48-109 applied to the cell (x, y) of the image.
ApplySobel ==
    /\ probe.fn = "sobel_detect_edge"
    /\ ~probe.done
    /\ LET frame == probe.frame
       IN  probe' = [probe EXCEPT
                       !.reads = sobel_reads(probe.x, probe.y, frame.width, frame.height),
                       !.edge = sobel_detect_edge(frame, probe.x, probe.y, frame.width,
                                                  frame.height, probe.threshold),
                       !.done = TRUE]
    /\ UNCHANGED programVars

SobelNext == ApplySobel

SobelSpec == SobelInit /\ [][SobelNext]_vars

\* C13: the edge detector reports no edge at every cell of the first or last
\* row or column whatever the image, and at every cell of an image whose
\* pixels are all equal, for every non-negative threshold; every coordinate
\* it reads lies inside the image.
C13_NoEdgeOnBorderOrUniform ==
    (probe.fn = "sobel_detect_edge" /\ probe.done) =>
        LET frame == probe.frame
            w == frame.width
            h == frame.height
            border == probe.x = 0 \/ probe.y = 0 \/ probe.x >= w - 1 \/ probe.y >= h - 1
            uniform == \A i \in 1..Len(frame.pixels) : frame.pixels[i] = frame.pixels[1]
        IN  /\ border => probe.edge = "None"
            /\ uniform => probe.edge = "None"
            /\ probe.edge # "Panic"
            /\ \A c \in probe.reads : c[1] \in 0..(w - 1) /\ c[2] \in 0..(h - 1)

\* An inner cell of a uniform white image has been examined at threshold 0:
\* its eight neighbours were read and no edge was reported.
C13_Witness ==
    /\ probe.fn = "sobel_detect_edge"
    /\ probe.done
    /\ probe.frame.width = 4
    /\ \A i \in 1..Len(probe.frame.pixels) : probe.frame.pixels[i] = 255
    /\ probe.x = 2 /\ probe.y = 1
    /\ probe.threshold = 0
    /\ Cardinality(probe.reads) = 8
    /\ probe.edge = "None"


\* The output of a full repaint of n rows followed by the flush: the cursor
\* goes to the origin, then row 0, line break, row 1, line break, ..., row
\* n - 1, and no line break after the last row.
FullRepaint(n) ==
    [k \in 1..(2 * n + 1) |->
        IF k = 1 THEN MoveTo(0)
        ELSE IF k = 2 * n + 1 THEN FlushOp
        ELSE IF k % 2 = 0 THEN WriteRow((k \div 2) - 1)
        ELSE WriteCRLF((k - 3) \div 2)]

\* C14: on the first displayed frame, and on a displayed frame whose row
\* count differs from that of the frame displayed before, the compositor
\* moves the cursor to the origin once and writes every row in increasing
\* order, each but the last followed by a line break, with no other cursor
\* move.
C14_FirstOrResizedFrameFullyRepainted ==
    (FullPassDone /\ (~shown_rows.some \/ Len(shown_rows.val) # Len(rows.val)))
        => out = FullRepaint(Len(rows.val))

\* A frame of three rows was displayed after a frame of two rows.
C14_Witness ==
    /\ FullPassDone
    /\ shown_rows.some
    /\ Len(shown_rows.val) = 2
    /\ Len(rows.val) = 3
    /\ out = << MoveTo(0), WriteRow(0), WriteCRLF(0), WriteRow(1), WriteCRLF(1),
                WriteRow(2), FlushOp >>


\* C15: a frame is consumed only by a step that follows a wake on the frame
\* channel, one frame per wake, and the frame consumed is the one published
\* last; a frame that was overwritten before is not the one borrowed, so it
\* is not rendered, and the blend buffer only ever receives the pixels of
\* the frame the pass borrowed.
C15_WakeConsumesLatestFrameOnly ==
    [][ /\ (main_pc # "pass" /\ main_pc' = "pass")
            => (main_pc = "select" /\ frame_unseen /\ ~frame_unseen')
        /\ ConsumeStep => (pass_frame' = last_sent /\ main_pc' # "pass")
        /\ (pass_frame' # pass_frame) => ConsumeStep
        /\ (prev_frame' # prev_frame)
            => prev_frame' = Some(pass_frame'.val.pixels) ]_vars

\* Two frames were published before the render flow borrowed for the first
\* time: the pass borrowed the second one and the first one was never
\* consumed.
C15_Witness ==
    /\ main_pc = "display"
    /\ last_pass = "none"
    /\ n_sent = 2
    /\ pass_frame = last_sent
    /\ prev_frame = None
    /\ ~frame_unseen


\* A step of the capture flow in which a blocking camera.frame() call returns.
FrameReadReturns ==
    /\ cap_pc = "frame"
    /\ n_frames' # n_frames \/ cap_pc' # cap_pc \/ diagnostics' # diagnostics

\* C16: once termination has been requested the control flow is past its
\* loop, and once the render flow has exited as well, the frame read the
\* capture flow is blocked in is its last one: whatever the read returns
\* (a frame, a failed read, a frame that does not decode), the capture flow
\* does not start another read.
C16_BackgroundFlowsExitAfterBlockingCall ==
    /\ [](quit_val => ctl_pc = "done")
    /\ [][ (quit_val /\ main_pc = "returned" /\ FrameReadReturns)
             => cap_pc' # "frame" ]_vars


\* Nothing is published and the render flow is left alone; the capture flow
\* is at its next camera.frame().
NothingPublished ==
    /\ cap_pc' = "frame"
    /\ cap_frame' = None
    /\ frame_slot' = frame_slot
    /\ frame_unseen' = frame_unseen
    /\ UNCHANGED << main_pc, borrowed, passVars >>

\* C17: the step that reports a decode error, and every step in which a
\* frame read returns without a decoded frame, publishes nothing, leaves the
\* channel value and the state of the render flow as they were and puts the
\* capture flow back at its next capture; a frame decoded after a decode
\* error is published by the send that follows.
C17_DecodeErrorIsTransient ==
    [][ /\ (cap_pc = "frame" /\ diagnostics' # diagnostics)
            => (diagnostics' = diagnostics \cup {"Decode error"} /\ NothingPublished)
        /\ (cap_pc = "frame" /\ n_frames' # n_frames /\ cap_pc' # "send")
            => NothingPublished
        /\ ("Decode error" \in diagnostics /\ cap_pc = "send" /\ cap_pc' = "frame")
            => (frame_slot' = cap_frame /\ frame_unseen') ]_vars

\* The first frame failed to decode and nothing was published; the second
\* one was decoded and is about to be sent to the waiting render flow.
C17_Witness ==
    /\ "Decode error" \in diagnostics
    /\ n_frames = 2
    /\ cap_pc = "send"
    /\ cap_frame = Some(DecodedFrame(3, 3, "split"))
    /\ frame_slot = None
    /\ n_sent = 0
    /\ main_pc = "select"
    /\ rx_alive


\* Width and height of the camera image whose pixels are `pixels`.
DimsOf(pixels) ==
    LET f == CHOOSE f \in CameraFrames : f.pixels = pixels
    IN  <<f.width, f.height>>

\* C18: when the frame of a pass and the frame whose pixels are in
\* prev_frame have different dimensions, every cell of the pass is rendered
\* from the raw pixel of the current frame, as it is with no previous frame.
C18_MismatchedDimensionsGiveRawPixels ==
    (/\ main_pc = "display"
     /\ prev_frame.some
     /\ DimsOf(prev_frame.val) # <<pass_frame.val.width, pass_frame.val.height>>)
        => rows.val = RenderRows(pass_frame.val, None, term_size[1], term_size[2])

\* C19: the skip flag is set only when the last frame consumed went through
\* a full pass, and the frame consumed right after a skipped frame enters
\* the full pipeline: no two frames in a row are skipped.
C19_NoTwoSkipsInARow ==
    /\ [](should_skip_next_frame => last_pass = "full")
    /\ [][ (ConsumeStep /\ last_pass = "skip") => FullEffects ]_vars

\* The frame received after a skipped frame is being rendered, the pass
\* before the skipped frame having taken 17 ms.
C19_Witness ==
    /\ main_pc = "render"
    /\ last_pass = "skip"
    /\ frame_duration = 17000
    /\ ~should_skip_next_frame
    /\ rows = Some(<<>>)

\* C20: while a pass is rendering or displaying, the channel still holds the
\* frame the pass borrowed, every row rendered so far is the row of that
\* frame blended with the value prev_frame had when the pass began, and
\* prev_frame does not change before the rows have been displayed.
C20_PassReadsOneFrameAndOnePrevFrame ==
    /\ [](main_pc \in {"render", "display", "flush"} =>
            /\ frame_slot = pass_frame
            /\ \A i \in 1..Len(rows.val) :
                 rows.val[i] = RenderRows(pass_frame.val, prev_frame,
                                          term_size[1], term_size[2])[i])
    /\ [][ (main_pc = "render" \/ main_pc = "display") => prev_frame' = prev_frame ]_vars

\* The capture flow holds a different decoded frame ready to send while the
\* second row of a pass over a blended frame is about to be rendered.
C20_Witness ==
    /\ main_pc = "render"
    /\ Len(rows.val) = 1
    /\ prev_frame.some
    /\ cap_pc = "send"
    /\ cap_frame # frame_slot
    /\ frame_slot = pass_frame

====
